---- MODULE Spec2Model ----
(***************************************************************************)
(* Verification model of the MCP chatbot repository.                       *)
(*                                                                         *)
(*   SpecConn  - one client connection of the WebSocket servers: the       *)
(*               backend server (src/chatbot/web/backend-server.js, with   *)
(*               the command parser and the MCP client) and the single     *)
(*               server (the AI chatbot server that calls the tools        *)
(*               directly).                                                *)
(*   SpecTools - one call of a tool wrapper (generateCode, detectBugs,     *)
(*               autoCommitAndPush) against the file system, the model     *)
(*               endpoint and the GitHub API.                              *)
(*   SpecSave  - ProjectRunner.saveProject writing a project payload.      *)
(*   SpecRequest - the single server handling one 'message' request.       *)
(*   SpecChat  - a connection whose messages are the texts typed in chat.  *)
(*   SpecParse - one call of CommandParser.parseCommand.                   *)
(*   SpecCli   - MCPChatbot.executeCommand of the command line client.     *)
(*   SpecWeb   - one request to the static server of runWebProject.        *)
(*   SpecApp   - the browser client of the backend server (web/app.js).    *)
(***************************************************************************)
EXTENDS Integers, Sequences, FiniteSets, TLC

VARIABLES
    server,        \* which server accepted the connection: "backend" | "single"
    wsState,       \* the server side socket: "open" | "closed"
    setup,         \* position of the backend's connection setup
    isConnected,   \* backend-server.js: let isConnected
    transport,     \* MCPChatbotClient.transport (the child process): "none" | "open" | "closed"
    pingInterval,  \* single server: the keep-alive timer: "none" | "active" | "cleared"
    listeners,     \* TRUE once ws.on('message') / ws.on('close') are registered
    reqs,          \* the client messages that arrived, in arrival order
    sent,          \* the envelopes handed to ws.send, in order
    tc,            \* SpecTools: the tool call in progress
    sv,            \* SpecSave: the saveProject call in progress
    ps,            \* SpecParse: the parseCommand call in progress
    cli,           \* SpecCli: the command the CLI is executing
    web,           \* SpecWeb: the request the static web server is answering
    app            \* SpecApp: the browser client of the backend server

connVars == <<server, wsState, setup, isConnected, transport, pingInterval,
              listeners, reqs, sent>>
vars == <<server, wsState, setup, isConnected, transport, pingInterval,
          listeners, reqs, sent, tc, sv, ps, cli, web, app>>

\* Number of client messages modelled on one connection.
MaxReqs == 2

(***************************************************************************)
(* JavaScript values of the parameter bag                                  *)
(***************************************************************************)
Undefined == "<undefined>"
Null == "<null>"
EmptyString == ""

\* !value in JavaScript, for the values a parameter bag holds
Falsy(v) == v \in {Undefined, Null, EmptyString}

ToolNames == {"generate-code", "detect-bugs", "check-best-practices", "github-commit"}
NoTool == "<none>"

ParamNames == {"description", "language", "framework", "code", "rootDirectory",
               "fileName", "localPath", "repo", "branch", "message"}

\* CommandParser.commands[tool].requiredParams
requiredParams(tool) ==
    CASE tool = "generate-code" -> <<"description", "language">>
      [] tool = "detect-bugs" -> <<"language", "rootDirectory", "fileName">>
      [] tool = "check-best-practices" -> <<"code", "language">>
      [] tool = "github-commit" -> <<"localPath", "repo", "branch", "message">>
      [] OTHER -> <<>>

Range(s) == {s[i] : i \in DOMAIN s}

RECURSIVE SeqsUpTo(_, _)
\* the sequences over S of length at most n
SeqsUpTo(S, n) ==
    IF n = 0 THEN {<<>>}
    ELSE LET shorter == SeqsUpTo(S, n - 1)
         IN  shorter \cup {Append(q, e) : q \in shorter, e \in S}

RECURSIVE SelectSeqBy(_, _, _)
\* the elements of s, in order, whose value in bag is falsy
SelectSeqBy(s, bag, i) ==
    IF i > Len(s) THEN <<>>
    ELSE (IF Falsy(bag[s[i]]) THEN <<s[i]>> ELSE <<>>) \o SelectSeqBy(s, bag, i + 1)

\* mutant: stops at the first missing parameter
validateParamsFirstOnly(params, toolName) ==
    LET all == SelectSeqBy(requiredParams(toolName), params, 1)
        missing == IF all = <<>> THEN <<>> ELSE <<all[1]>>
    IN  [valid |-> missing = <<>>, missing |-> missing]

\* CommandParser.validateParams
validateParams(params, toolName) ==
    LET missing == SelectSeqBy(requiredParams(toolName), params, 1)
    IN  [valid |-> Len(missing) = 0, missing |-> missing]

(***************************************************************************)
(* The text of a command, by what the parser reads of it                   *)
(*   special : the whole text, lower-cased, is "help" / "tools"; or the    *)
(*             envelope carries no input field ("undefined")               *)
(*   kw      : which keyword groups of parseCommand occur in the text      *)
(*   code    : extractCode finds code in the text                          *)
(*   file    : extractFilePath's result split at '/', <<>> when it finds   *)
(*             none                                                        *)
(*   repo    : extractRepo finds a repository name                         *)
(***************************************************************************)
Text(special, kw, code, file, repo) ==
    [special |-> special, kw |-> kw, code |-> code, file |-> file, repo |-> repo]

\* mutant: the generation keywords are tried without the bug-intent guard
parseCommandGenerateUnguarded(kw) ==
    IF ("bug" \in kw \/ "file" \in kw) /\ kw \cap {"generate", "create", "build"} = {}
    THEN "detect-bugs"
    ELSE IF "best practices" \in kw THEN "check-best-practices"
    ELSE IF "git commit" \in kw THEN "github-commit"
    ELSE IF kw \cap {"generate", "create", "build", "make"} # {} THEN "generate-code"
    ELSE IF "bug" \in kw THEN "detect-bugs"
    ELSE NoTool

\* CommandParser.parseCommand
parseCommand(kw) ==
    LET hasBugIntent == "bug" \in kw
        hasFileIntent == "file" \in kw
        hasGenerateIntent == kw \cap {"generate", "create", "build", "make"} # {}
    IN  IF (hasBugIntent \/ hasFileIntent) /\ kw \cap {"generate", "create", "build"} = {}
        THEN "detect-bugs"
        ELSE IF "best practices" \in kw THEN "check-best-practices"
        ELSE IF "git commit" \in kw THEN "github-commit"
        ELSE IF hasGenerateIntent /\ ~hasBugIntent THEN "generate-code"
        ELSE IF hasBugIntent THEN "detect-bugs"
        ELSE NoTool

EmptyBag == [p \in ParamNames |-> Undefined]

\* pathParts.join('/') of the directory part of a split file path
JoinDir(parts) == IF \A i \in DOMAIN parts : parts[i] = "" THEN "" ELSE "dir"

\* CommandParser.extractParams
extractParams(text, toolName) ==
    CASE toolName = "generate-code" ->
            [EmptyBag EXCEPT !["description"] = "text", !["language"] = "javascript"]
      [] toolName = "detect-bugs" ->
            IF text.code
            THEN [EmptyBag EXCEPT !["language"] = "javascript", !["code"] = "code"]
            ELSE IF text.file # <<>>
            THEN IF Len(text.file) > 1
                 THEN [EmptyBag EXCEPT !["language"] = "javascript",
                                       !["fileName"] = text.file[Len(text.file)],
                                       !["rootDirectory"] =
                                           JoinDir(SubSeq(text.file, 1, Len(text.file) - 1))]
                 ELSE [EmptyBag EXCEPT !["language"] = "javascript",
                                       !["fileName"] = text.file[1],
                                       !["rootDirectory"] = "cwd"]
            ELSE [EmptyBag EXCEPT !["language"] = "javascript", !["rootDirectory"] = "cwd"]
      [] toolName = "check-best-practices" ->
            [EmptyBag EXCEPT !["code"] = IF text.code THEN "code" ELSE Null,
                             !["language"] = "javascript"]
      [] toolName = "github-commit" ->
            [EmptyBag EXCEPT !["localPath"] = "cwd",
                             !["repo"] = IF text.repo THEN "repo" ELSE Undefined,
                             !["branch"] = "main",
                             !["message"] = "text"]
      [] OTHER -> EmptyBag

(***************************************************************************)
(* Client messages                                                         *)
(***************************************************************************)
NoText == Text("none", {}, FALSE, <<>>, FALSE)

\* The command texts sent to the backend server.
CommandTexts ==
    { Text("help", {}, FALSE, <<>>, FALSE),
      Text("tools", {}, FALSE, <<>>, FALSE),
      Text("undefined", {}, FALSE, <<>>, FALSE),
      Text("none", {}, FALSE, <<>>, FALSE),
      Text("none", {"generate"}, FALSE, <<>>, FALSE),
      Text("none", {"bug"}, FALSE, <<"app.js">>, FALSE),
      Text("none", {"bug"}, TRUE, <<>>, FALSE),
      Text("none", {"bug", "file"}, FALSE, <<"", "app.js">>, FALSE),
      Text("none", {"bug"}, FALSE, <<>>, FALSE),
      Text("none", {"best practices"}, FALSE, <<>>, FALSE),
      Text("none", {"best practices"}, TRUE, <<>>, FALSE),
      Text("none", {"git commit"}, FALSE, <<>>, FALSE),
      Text("none", {"git commit"}, FALSE, <<>>, TRUE) }

Msg(type, text) == [type |-> type, text |-> text]

\* "badjson": JSON.parse(message) throws; "other": a type the handler ignores
BackendMessages ==
    {Msg("command", t) : t \in CommandTexts} \cup {Msg("other", NoText), Msg("badjson", NoText)}

SingleMessages ==
    {Msg(t, NoText) : t \in {"message", "help", "ping", "other", "badjson"}}

\* The texts a user types in the chat: "help", or a request.
TypedTexts == {Text("help", {}, FALSE, <<>>, FALSE), Text("none", {"generate"}, FALSE, <<>>, FALSE)}

\* the React chat client: sendMessage sends what the user typed as a
\* 'message', whatever the text is
sendMessage(userInput) == Msg("message", userInput)

\* the browser client of the backend server: sendMessage sends what the user
\* typed as the input of a 'command'
sendCommand(message) == Msg("command", message)

\* the request types the servers answer with a terminal envelope
IsRequest(m) == m.type \in {"command", "message"}

(***************************************************************************)
(* Envelopes                                                               *)
(***************************************************************************)
\* type: the envelope's type; tag: data.type of a backend 'response'
Env(type, tag, missing) == [type |-> type, tag |-> tag, missing |-> missing]

Terminal(e) == e.type \in {"response", "error"}

\* an envelope the client shows as an error
ErrorTagged(e) == e.type = "error" \/ (e.type = "response" /\ e.tag = "error")

\* ws.send(JSON.stringify(...)) of the envelopes envs, for request r
Stamp(envs, r) ==
    [i \in DOMAIN envs |->
        [req |-> r, type |-> envs[i].type, tag |-> envs[i].tag,
         missing |-> envs[i].missing, open |-> wsState = "open"]]

Handled(envs, pc, tool, params, failure, toolCalled) ==
    [envs |-> envs, pc |-> pc, tool |-> tool, params |-> params,
     failure |-> failure, toolCalled |-> toolCalled]

\* mutant: the tool is called although parameters are missing
BackendValidatedCallsAnyway(tool, params, validation) ==
    Handled(<<Env("processing", "none", <<>>), Env("executing", "none", <<>>)>>,
            "awaitTool", tool, params, "none", TRUE)

\* backend-server.js ws.on('message'): from validateParams to client.callTool
BackendValidated(tool, params, validation) ==
    IF ~validation.valid
    THEN Handled(<<Env("processing", "none", <<>>),
                   Env("response", "error", validation.missing)>>,
                 "done", tool, params, "param", FALSE)
    ELSE Handled(<<Env("processing", "none", <<>>), Env("executing", "none", <<>>)>>
                   \o (IF tool = "generate-code"
                       THEN <<Env("progress", "none", <<>>)>> ELSE <<>>),
                 "awaitTool", tool, params, "none", TRUE)

\* backend-server.js ws.on('message'): the handler up to its first await
BackendHandle(m) ==
    IF m.type = "badjson"
    THEN Handled(<<Env("error", "none", <<>>)>>, "done", NoTool, EmptyBag, "parse", FALSE)
    ELSE IF m.type # "command"
    THEN Handled(<<>>, "done", NoTool, EmptyBag, "none", FALSE)
    ELSE IF m.text.special = "undefined"
    THEN Handled(<<Env("processing", "none", <<>>), Env("error", "none", <<>>)>>,
                 "done", NoTool, EmptyBag, "input", FALSE)
    ELSE IF m.text.special = "help"
    THEN Handled(<<Env("processing", "none", <<>>), Env("response", "help", <<>>)>>,
                 "done", NoTool, EmptyBag, "none", FALSE)
    ELSE IF m.text.special = "tools"
    THEN Handled(<<Env("processing", "none", <<>>), Env("response", "tools", <<>>)>>,
                 "done", NoTool, EmptyBag, "none", FALSE)
    ELSE LET tool == parseCommand(m.text.kw)
         IN  IF tool = NoTool
             THEN Handled(<<Env("processing", "none", <<>>),
                            Env("response", "error", <<>>)>>,
                          "done", NoTool, EmptyBag, "unknown", FALSE)
             ELSE LET params == extractParams(m.text, tool)
                  IN  BackendValidated(tool, params, validateParams(params, tool))

\* the single server's ws.on('message'): the handler up to its first await
SingleHandle(m) ==
    IF m.type = "badjson"
    THEN Handled(<<Env("error", "none", <<>>)>>, "done", NoTool, EmptyBag, "parse", FALSE)
    ELSE IF m.type = "ping"
    THEN Handled(<<Env("pong", "none", <<>>)>>, "done", NoTool, EmptyBag, "none", FALSE)
    ELSE IF m.type = "help"
    THEN Handled(<<Env("response", "none", <<>>)>>, "done", NoTool, EmptyBag, "none", FALSE)
    ELSE IF m.type = "message"
    THEN Handled(<<Env("thinking", "none", <<>>)>>, "awaitIntent", NoTool, EmptyBag,
                 "none", FALSE)
    ELSE Handled(<<>>, "done", NoTool, EmptyBag, "none", FALSE)

\* intentCalled: the handler awaits analyzeIntent, which asks the model
Req(m, h) ==
    [msg |-> m, pc |-> h.pc, tool |-> h.tool, params |-> h.params,
     failure |-> h.failure, toolCalled |-> h.toolCalled,
     intentCalled |-> (h.pc = "awaitIntent")]

(***************************************************************************)
(* The tool call behind client.callTool (backend) and executeTool (single) *)
(***************************************************************************)
\* src/server.js tool handlers: try { data = await tool(params) } catch -> text.
\* toolThrew: the tool wrapper rejected. The result of the MCP call.
mcpToolHandler(toolThrew) ==
    [content |-> IF toolThrew THEN "Failed: error.message" ELSE "json", isError |-> FALSE]

\* mutant: the catch only logs the error
BackendAfterCallLogOnly(callRejected, result) ==
    IF callRejected THEN <<>> ELSE <<Env("response", "success", <<>>)>>

\* backend-server.js ws.on('message'): after await client.callTool
\* callRejected: client.callTool threw (timeout, transport closed)
BackendAfterCall(callRejected, result) ==
    IF callRejected THEN <<Env("response", "error", <<>>)>>
    ELSE <<Env("response", "success", <<>>)>>

\* the single server's ws.on('message'): after await executeTool
\* outcome: "ok" | "threw" (the tool rejected) | "malformed" (formatResponse throws)
SingleAfterTool(outcome) ==
    IF outcome = "ok" THEN Env("response", "none", <<>>) ELSE Env("error", "none", <<>>)

(***************************************************************************)
(* SpecConn: one client connection                                         *)
(***************************************************************************)
ToolsIdle == tc = [pc |-> "idle"]
SaveIdle == sv = [pc |-> "idle"]
ParseIdle == ps = [pc |-> "idle"]
CliIdle == cli = [pc |-> "idle"]
WebIdle == web = [pc |-> "idle"]
AppIdle == app = [pc |-> "idle"]

ConnInit ==
    /\ server \in {"backend", "single"}
    /\ wsState = "open"
    /\ setup = IF server = "backend" THEN "connect" ELSE "ready"
    /\ isConnected = FALSE
    /\ transport = "none"
    /\ pingInterval = IF server = "single" THEN "active" ELSE "none"
    /\ listeners = (server = "single")
    /\ reqs = <<>>
    /\ sent = IF server = "single"
              THEN <<[req |-> 0, type |-> "connected", tag |-> "none",
                      missing |-> <<>>, open |-> TRUE]>>
              ELSE <<>>

\* MCPChatbotClient.connect: await this.client.connect(this.transport) resolves
ConnectOk ==
    /\ server = "backend" /\ setup = "connect"
    /\ transport' = "open"
    /\ setup' = "listTools"
    /\ UNCHANGED <<server, wsState, isConnected, pingInterval, listeners, reqs, sent>>
    /\ UNCHANGED <<tc, sv, ps, cli, web, app>>

\* wss.on('connection') catch: sendMessage('error'); ws.close(); return
ConnectionFailed ==
    /\ sent' = sent \o Stamp(<<Env("error", "none", <<>>)>>, 0)
    /\ wsState' = "closed"
    /\ setup' = "failed"
    /\ UNCHANGED <<server, isConnected, pingInterval, listeners, reqs>>
    /\ UNCHANGED <<tc, sv, ps, cli, web, app>>

\* client.connect(transport) rejects: no child process stays behind
ConnectFail ==
    /\ server = "backend" /\ setup = "connect"
    /\ \E t \in {"none", "closed"} : transport' = t
    /\ ConnectionFailed

\* await this.client.listTools() resolves; the rest of wss.on('connection')
ListToolsOk ==
    /\ server = "backend" /\ setup = "listTools"
    /\ isConnected' = TRUE
    /\ sent' = sent \o Stamp(<<Env("connected", "none", <<>>)>>, 0)
    /\ listeners' = TRUE
    /\ setup' = "ready"
    /\ UNCHANGED <<server, wsState, transport, pingInterval, reqs>>
    /\ UNCHANGED <<tc, sv, ps, cli, web, app>>

\* await this.client.listTools() rejects: connect() rethrows, the transport stays
ListToolsFail ==
    /\ server = "backend" /\ setup = "listTools"
    /\ UNCHANGED transport
    /\ ConnectionFailed

\* mutant: the message handler runs although it is not registered yet
ReceiveFromUnregistered(messages) ==
    /\ wsState = "open"
    /\ Len(reqs) < MaxReqs
    /\ \E m \in messages :
          LET h == IF server = "backend" THEN BackendHandle(m) ELSE SingleHandle(m)
          IN  /\ reqs' = Append(reqs, Req(m, h))
              /\ sent' = sent \o Stamp(h.envs, Len(reqs) + 1)
    /\ UNCHANGED <<server, wsState, setup, isConnected, transport, pingInterval, listeners>>
    /\ UNCHANGED <<tc, sv, ps, cli, web, app>>

\* the message m arrives on the open socket
ReceiveFrom(messages) ==
    /\ wsState = "open"
    /\ Len(reqs) < MaxReqs
    /\ \E m \in messages :
          IF ~listeners
          THEN /\ reqs' = Append(reqs, Req(m, Handled(<<>>, "dropped", NoTool, EmptyBag,
                                                       "none", FALSE)))
               /\ sent' = sent
          ELSE LET h == IF server = "backend" THEN BackendHandle(m) ELSE SingleHandle(m)
               IN  /\ reqs' = Append(reqs, Req(m, h))
                   /\ sent' = sent \o Stamp(h.envs, Len(reqs) + 1)
    /\ UNCHANGED <<server, wsState, setup, isConnected, transport, pingInterval, listeners>>
    /\ UNCHANGED <<tc, sv, ps, cli, web, app>>

\* a client message arrives on the open socket
Receive == ReceiveFrom(IF server = "backend" THEN BackendMessages ELSE SingleMessages)

\* the user types a text in the chat and the client sends it
ChatSend ==
    ReceiveFrom(IF server = "backend" THEN {sendCommand(t) : t \in TypedTexts}
                ELSE {sendMessage(t) : t \in TypedTexts})

\* What the classification call of analyzeIntent yields: the call rejects,
\* its text is not JSON, or the parsed intent names a tool (or none).
IntentAnswers == ToolNames \cup {"deploy", Undefined, "<rejected>", "<malformed>"}

\* the single server: TOOLS[*].name
TOOLS == {"generate-code", "detect-bugs", "check-best-practices", "github-commit"}

\* mutant: the tool named by the intent is not checked against TOOLS
analyzeIntentUnchecked(answer) ==
    IF answer \in {"<rejected>", "<malformed>"} THEN NoTool ELSE answer

\* the single server's analyzeIntent: intent.tool, NoTool when it throws
\* 'Could not understand your request'
analyzeIntent(answer) ==
    IF answer \in {"<rejected>", "<malformed>"} THEN NoTool
    ELSE IF answer \notin TOOLS THEN NoTool
    ELSE answer

\* the single server's executeTool: TRUE when a case of the switch runs a
\* tool, FALSE for the default case, which throws 'Tool not implemented'
executeTool(toolName) ==
    toolName \in {"generate-code", "detect-bugs", "check-best-practices", "github-commit"}

\* the single server's ws.on('message'): from the intent to await executeTool
SingleAfterIntent(tool) ==
    IF tool = NoTool
    THEN Handled(<<Env("error", "none", <<>>)>>, "done", NoTool, EmptyBag, "intent", FALSE)
    ELSE IF executeTool(tool)
    THEN Handled(<<Env("processing", "none", <<>>)>>, "awaitTool", tool, EmptyBag,
                 "none", TRUE)
    ELSE Handled(<<Env("processing", "none", <<>>), Env("error", "none", <<>>)>>,
                 "done", tool, EmptyBag, "tool", FALSE)

\* the single server: await analyzeIntent(userMessage) settles
IntentReturn ==
    \E i \in DOMAIN reqs :
      /\ reqs[i].pc = "awaitIntent"
      /\ \E answer \in IntentAnswers :
            LET h == SingleAfterIntent(analyzeIntent(answer))
            IN  /\ reqs' = [reqs EXCEPT ![i].pc = h.pc, ![i].tool = h.tool,
                                        ![i].failure = h.failure,
                                        ![i].toolCalled = h.toolCalled]
                /\ sent' = sent \o Stamp(h.envs, i)
      /\ UNCHANGED <<server, wsState, setup, isConnected, transport, pingInterval, listeners>>
      /\ UNCHANGED <<tc, sv, ps, cli, web, app>>

\* the awaited tool call of request i settles
ToolReturn ==
    \E i \in DOMAIN reqs :
      /\ reqs[i].pc = "awaitTool"
      /\ IF server = "backend"
         THEN \E o \in (IF transport = "open" THEN {"ok", "toolThrew", "callRejected"}
                        ELSE {"callRejected"}) :
                /\ reqs' = [reqs EXCEPT ![i].pc = "done",
                              ![i].failure = CASE o = "ok" -> "none"
                                               [] o = "toolThrew" -> "tool"
                                               [] OTHER -> "call"]
                /\ sent' = sent \o
                     Stamp(BackendAfterCall(o = "callRejected",
                                            mcpToolHandler(o = "toolThrew")), i)
         ELSE \E o \in {"ok", "threw", "malformed"} :
                /\ reqs' = [reqs EXCEPT ![i].pc = "done",
                              ![i].failure = CASE o = "ok" -> "none"
                                               [] o = "threw" -> "tool"
                                               [] OTHER -> "format"]
                /\ sent' = sent \o Stamp(<<SingleAfterTool(o)>>, i)
      /\ UNCHANGED <<server, wsState, setup, isConnected, transport, pingInterval, listeners>>
      /\ UNCHANGED <<tc, sv, ps, cli, web, app>>
    /\ UNCHANGED <<tc, sv, ps, cli, web, app>>

\* the 'close' event of the socket, with ws.on('close') when it is registered
Close ==
    /\ wsState = "open"
    /\ wsState' = "closed"
    /\ transport' = IF listeners /\ server = "backend" /\ isConnected /\ transport # "none"
                    THEN "closed" ELSE transport
    /\ pingInterval' = IF listeners /\ server = "single" THEN "cleared" ELSE pingInterval
    /\ UNCHANGED <<server, setup, isConnected, listeners, reqs, sent>>
    /\ UNCHANGED <<tc, sv, ps, cli, web, app>>

ConnNext ==
    \/ ConnectOk
    \/ ConnectFail
    \/ ListToolsOk
    \/ ListToolsFail
    \/ Receive
    \/ IntentReturn
    \/ ToolReturn
    \/ Close

InitConn == ConnInit /\ ToolsIdle /\ SaveIdle /\ ParseIdle /\ CliIdle /\ WebIdle /\ AppIdle

SpecConn == InitConn /\ [][ConnNext]_vars

\* SpecChat: a connection on which the messages are the texts typed in the chat
ChatNext ==
    \/ ConnectOk
    \/ ConnectFail
    \/ ListToolsOk
    \/ ListToolsFail
    \/ ChatSend
    \/ IntentReturn
    \/ ToolReturn
    \/ Close

SpecChat == InitConn /\ [][ChatNext]_vars

(***************************************************************************)
(* Claims about a client connection (SpecConn)                             *)
(***************************************************************************)
EnvelopesOf(i) == {k \in DOMAIN sent : sent[k].req = i}
TerminalsOf(i) == {k \in EnvelopesOf(i) : Terminal(sent[k])}

\* the required parameters of request i's tool that its parameter bag lacks
MissingOf(i) ==
    {p \in Range(requiredParams(reqs[i].tool)) : Falsy(reqs[i].params[p])}

C2_FailuresTaggedError ==
    \A i \in DOMAIN reqs :
        (reqs[i].pc = "done" /\ reqs[i].failure # "none") =>
            /\ TerminalsOf(i) # {}
            /\ \A k \in TerminalsOf(i) : ErrorTagged(sent[k])

\* every envelope of request i is sent before its terminal envelope
AcksBeforeTerminal(i) ==
    \A k \in TerminalsOf(i) : \A j \in EnvelopesOf(i) : j <= k

\* C3 as stated: every 'message' / 'command' that arrived on the open
\* connection and is no longer being handled got exactly one terminal
\* envelope, after all its other envelopes.
C3_EveryRequestAnswered ==
    \A i \in DOMAIN reqs :
        (IsRequest(reqs[i].msg) /\ reqs[i].pc \in {"done", "dropped"}) =>
            /\ Cardinality(TerminalsOf(i)) = 1
            /\ AcksBeforeTerminal(i)

\* C3 amended: every 'message' / 'command' for which the message handler ran
\* gets exactly one terminal envelope once its handling is over, never more
\* than one, and all its other envelopes precede the terminal one; a command
\* that reaches the backend before the handler is registered gets none.
C3_HandledRequestAnswered ==
    \A i \in DOMAIN reqs :
        IsRequest(reqs[i].msg) =>
            /\ Cardinality(TerminalsOf(i)) =
                  (IF reqs[i].pc = "done" THEN 1 ELSE 0)
            /\ AcksBeforeTerminal(i)

\* C3 witness: a generate-code command went through processing, executing
\* and progress to its response while another request was handled
C3_Witness ==
    \E i \in DOMAIN reqs :
        /\ reqs[i].pc = "done" /\ reqs[i].toolCalled
        /\ Cardinality(EnvelopesOf(i)) = 4
        /\ Len(reqs) > 1

\* C4: the handling of a message is over before the handling of the next
\* message of the connection starts, and terminal envelopes follow the order
\* of arrival.
C4_Sequential ==
    /\ \A i, j \in DOMAIN reqs : i < j => reqs[i].pc \in {"done", "dropped"}
    /\ \A i, j \in DOMAIN reqs : i < j =>
          \A a \in TerminalsOf(i), b \in TerminalsOf(j) : a < b

\* C5: once the connection is closed and its setup is over, nothing acquired
\* for it is still held.
C5_ReleasedOnClose ==
    (wsState = "closed" /\ setup \in {"ready", "failed"}) =>
        /\ transport # "open"
        /\ pingInterval # "active"

\* request i is free text that the handler received
FreeText(i) ==
    /\ IsRequest(reqs[i].msg) /\ reqs[i].pc # "dropped"
    /\ reqs[i].msg.text.special # "undefined"

\* request i was resolved to none of the four operations and is over
ResolvedToNone(i) ==
    FreeText(i) /\ reqs[i].tool = NoTool /\ reqs[i].pc = "done"

\* C12 as stated: every free-text request is resolved to one of the four
\* named operations or rejected; a tool is executed only for one of the four,
\* and a request resolved to none of them gets an error reply and no tool is
\* executed for it.
C12_ResolvedOrRejected ==
    \A i \in DOMAIN reqs :
        /\ reqs[i].tool \in ToolNames \cup {NoTool}
        /\ reqs[i].toolCalled => reqs[i].tool \in ToolNames
        /\ ResolvedToNone(i) =>
              /\ ~reqs[i].toolCalled
              /\ \A k \in EnvelopesOf(i) : sent[k].type \notin {"executing", "progress"}
              /\ Cardinality(TerminalsOf(i)) = 1
              /\ \A k \in TerminalsOf(i) : ErrorTagged(sent[k])

\* the backend's special commands, answered before the parser is asked
SpecialCommand(i) ==
    server = "backend" /\ reqs[i].msg.text.special \in {"help", "tools"}

\* C12 amended: as stated, except that the backend answers the texts 'help'
\* and 'tools' with the help message and the tool list: they resolve to no
\* operation, no tool is executed, and the reply is not an error.
C12_ResolvedOrRejectedOrSpecial ==
    \A i \in DOMAIN reqs :
        /\ reqs[i].tool \in ToolNames \cup {NoTool}
        /\ reqs[i].toolCalled => reqs[i].tool \in ToolNames
        /\ ResolvedToNone(i) =>
              /\ ~reqs[i].toolCalled
              /\ \A k \in EnvelopesOf(i) : sent[k].type \notin {"executing", "progress"}
              /\ Cardinality(TerminalsOf(i)) = 1
              /\ \A k \in TerminalsOf(i) :
                    IF SpecialCommand(i)
                    THEN sent[k].type = "response" /\ sent[k].tag = reqs[i].msg.text.special
                    ELSE ErrorTagged(sent[k])

\* C12 witness: on one connection a text the resolver could not place was
\* rejected and another was resolved and its tool called
C12_Witness ==
    \E i, j \in DOMAIN reqs :
        /\ ResolvedToNone(i) /\ ~SpecialCommand(i)
        /\ \E k \in TerminalsOf(i) : ErrorTagged(sent[k])
        /\ reqs[j].toolCalled /\ reqs[j].tool \in ToolNames

\* the user typed the text "help" in the chat, and the server received it
TypedHelp(i) ==
    /\ IsRequest(reqs[i].msg) /\ reqs[i].msg.text.special = "help"
    /\ reqs[i].pc # "dropped"

\* C14: a typed "help" is answered with the help message, and neither a
\* tool nor the model endpoint is called for it.
C14_HelpWithoutCalls ==
    \A i \in DOMAIN reqs :
        TypedHelp(i) =>
            /\ ~reqs[i].toolCalled
            /\ ~reqs[i].intentCalled
            /\ reqs[i].pc = "done"
            /\ Cardinality(TerminalsOf(i)) = 1
            /\ \A k \in TerminalsOf(i) : sent[k].type = "response" /\ ~ErrorTagged(sent[k])

\* request i is a bug-detection command that carries the code itself and
\* names no file
PastedCode(i) ==
    /\ server = "backend" /\ reqs[i].msg.type = "command"
    /\ reqs[i].pc # "dropped"
    /\ "bug" \in reqs[i].msg.text.kw /\ reqs[i].msg.text.kw \subseteq {"bug", "file"}
    /\ reqs[i].msg.text.code /\ reqs[i].msg.text.file = <<>>

\* C15: a bug-detection request with pasted code and no file reaches the
\* detect-bugs tool and is not rejected for missing parameters.
C15_PastedCodeAnalysed ==
    \A i \in DOMAIN reqs :
        PastedCode(i) =>
            /\ reqs[i].tool = "detect-bugs"
            /\ reqs[i].toolCalled
            /\ reqs[i].failure # "param"

\* the message handler of the server ran for request i
Processed(i) == reqs[i].pc # "dropped"

\* C21: on a connection to the backend server the first envelope is
\* 'connected' or 'error'; after a connection-time 'error' the socket is
\* closed and no command is processed; no command is processed before
\* 'connected' was sent.
C21_ConnectedFirst ==
    server = "backend" =>
        /\ sent # <<>> => (sent[1].req = 0 /\ sent[1].type \in {"connected", "error"})
        /\ (sent # <<>> /\ sent[1].type = "error") =>
              /\ wsState = "closed"
              /\ \A i \in DOMAIN reqs : ~Processed(i)
        /\ \A i \in DOMAIN reqs :
              Processed(i) =>
                  /\ sent # <<>> /\ sent[1].type = "connected"
                  /\ \A k \in EnvelopesOf(i) : k > 1

\* a command arrived during the setup and was dropped, 'connected' was sent,
\* and a later command was processed up to its tool call
C21_Witness ==
    /\ server = "backend"
    /\ Len(reqs) = 2
    /\ ~Processed(1)
    /\ Processed(2) /\ reqs[2].toolCalled /\ reqs[2].pc = "done"
    /\ sent[1].type = "connected"

\* C24: no envelope is handed to ws.send after the socket has closed.
C24_NoSendAfterClose ==
    \A k \in DOMAIN sent : sent[k].open

(***************************************************************************)
(* Paths: a path is the sequence of its segments, "/" first when absolute  *)
(***************************************************************************)
RECURSIVE NormalizeFrom(_, _, _)
\* path.normalize: drops "", "." and inner "/", resolves ".."
NormalizeFrom(segs, i, acc) ==
    IF i > Len(segs) THEN acc
    ELSE LET s == segs[i]
             next ==
                 IF s = "/" THEN (IF acc = <<>> THEN <<"/">> ELSE acc)
                 ELSE IF s \in {"", "."} THEN acc
                 ELSE IF s = ".."
                 THEN IF acc = <<"/">> THEN acc
                      ELSE IF acc # <<>> /\ acc[Len(acc)] # ".."
                      THEN SubSeq(acc, 1, Len(acc) - 1)
                      ELSE Append(acc, "..")
                 ELSE Append(acc, s)
         IN  NormalizeFrom(segs, i + 1, next)

\* path.join(a, b)
join(a, b) == NormalizeFrom(a \o b, 1, <<>>)

\* the path a message shows for an undefined value: `${undefined}`
UndefinedPath == <<Undefined>>

(***************************************************************************)
(* SpecTools: one call of a tool wrapper                                   *)
(***************************************************************************)
\* Number of files under localPath.
MaxFiles == 2

NoError == [kind |-> "none", paths |-> {}]

(***************************************************************************)
(* JSON values and the text of the model's answer                          *)
(*   An object is a record; a key the object does not have is not in its   *)
(*   domain. A text is a sequence of tokens: the serialisation of one      *)
(*   value ("json"), a markdown fence ("fence-json", "fence"), prose without    *)
(*   braces ("prose"), prose with a balanced pair of braces ("braces"),    *)
(*   and text with an opening brace only ("open").                         *)
(***************************************************************************)
\* Number of file entries of a generated project.
MaxGenerated == 2

NoValue == [null |-> TRUE]
Token(kind, value) == [kind |-> kind, value |-> value]
NoToken == Token("none", NoValue)

\* obj[key] of JavaScript for a key holding a string: undefined when absent
Get(obj, key) == IF key \in DOMAIN obj THEN obj[key] ELSE Undefined

GeneratedEntries == {[path |-> "a", content |-> "x"], [path |-> "a", content |-> "y"],
                     [path |-> "b", content |-> "x"]}

\* the project objects the model can answer with: "files" may be absent
ModelValues ==
    {[files |-> f] : f \in SeqsUpTo(GeneratedEntries, MaxGenerated)}
      \cup {[projectName |-> "p", files |-> f] : f \in SeqsUpTo(GeneratedEntries, MaxGenerated)}
      \cup {[projectName |-> "p"]}

\* response.text of the model
ModelTexts ==
    UNION {{ <<Token("json", v)>>,
             <<Token("fence-json", NoValue), Token("json", v), Token("fence", NoValue)>>,
             <<Token("fence", NoValue), Token("json", v), Token("fence", NoValue)>>,
             <<Token("prose", NoValue), Token("json", v), Token("prose", NoValue)>>,
             <<Token("braces", NoValue), Token("json", v)>> } : v \in ModelValues}
      \cup { <<Token("prose", NoValue)>>, <<Token("open", NoValue)>>,
             <<Token("braces", NoValue)>>, <<>> }

\* generateCode: remove markdown code blocks if present
stripFences(text) ==
    LET a == IF text # <<>> /\ text[1].kind \in {"fence-json", "fence"}
             THEN SubSeq(text, 2, Len(text)) ELSE text
    IN  IF a # <<>> /\ a[Len(a)].kind = "fence" THEN SubSeq(a, 1, Len(a) - 1) ELSE a

\* the regular expression match from the first opening brace to the last closing brace, <<>> for no match
matchBraces(text) ==
    LET opens == {i \in DOMAIN text : text[i].kind \in {"json", "braces", "open"}}
        closes == {i \in DOMAIN text : text[i].kind \in {"json", "braces"}}
    IN  IF opens = {} \/ closes = {} THEN <<>>
        ELSE LET first == CHOOSE i \in opens : \A j \in opens : i <= j
                 last == CHOOSE i \in closes : \A j \in closes : j <= i
             IN  IF last < first THEN <<>> ELSE SubSeq(text, first, last)

\* JSON.parse(text): ok only for the serialisation of one value
JSONparse(text) ==
    IF Len(text) = 1 /\ text[1].kind = "json"
    THEN [ok |-> TRUE, value |-> text[1].value]
    ELSE [ok |-> FALSE, value |-> NoValue]

\* JSON.stringify(obj): keys holding undefined are left out
JSONstringify(obj) ==
    LET keep(o) == {k \in DOMAIN o : k \in {"projectName", "framework"} => o[k] # Undefined}
        drop(o) == [k \in keep(o) |-> o[k]]
    IN  <<Token("json", [k \in keep(obj) |->
                            IF k = "summary" THEN drop(obj[k]) ELSE obj[k]])>>

\* generateCode: the decoding of response.text, with its second attempt
decodeResponse(generatedText) ==
    LET jsonMatch == matchBraces(stripFences(generatedText))
        betterMatch == matchBraces(generatedText)
    IN  IF jsonMatch = <<>> THEN [error |-> "No valid JSON found in response", value |-> NoValue]
        ELSE IF JSONparse(jsonMatch).ok
        THEN [error |-> "none", value |-> JSONparse(jsonMatch).value]
        ELSE IF betterMatch # <<>> /\ JSONparse(betterMatch).ok
                 /\ "projectName" \in DOMAIN JSONparse(betterMatch).value
        THEN [error |-> "none", value |-> JSONparse(betterMatch).value]
        ELSE [error |-> "Failed to parse AI response", value |-> NoValue]

\* mutant: the returned list loses its last entry
generateCodeReturnTruncated(projectData, framework) ==
    [success |-> TRUE,
     projectName |-> Get(projectData, "projectName"),
     files |-> SubSeq(projectData.files, 1, Len(projectData.files) - 1),
     summary |-> [totalFiles |-> Len(projectData.files), language |-> "javascript",
                  framework |-> framework]]

\* generateCode: the value returned for the decoded projectData
generateCodeReturn(projectData, framework) ==
    [success |-> TRUE,
     projectName |-> Get(projectData, "projectName"),
     files |-> projectData.files,
     summary |-> [totalFiles |-> Len(projectData.files), language |-> "javascript",
                  framework |-> framework]]
Err(kind, paths) == [kind |-> kind, paths |-> paths]

Root == <<"/", "proj">>
FileNames == {<<"a.js">>, <<"src", "a.js">>, <<"mysrc", "a.js">>}
DiskFiles == {<<"/", "proj", "a.js">>, <<"/", "proj", "src", "a.js">>,
              <<"/", "proj", "mysrc", "a.js">>}

\* params.fileName.includes('src/')
includesSrc(fileName) ==
    \E i \in 1..(Len(fileName) - 1) : fileName[i] \in {"src", "mysrc"}

\* the error code of readFile(path), "ok" when it can be read
readFile(path, readable, denied) ==
    IF path \in readable THEN "ok"
    ELSE IF path \in denied THEN "EACCES"
    ELSE "ENOENT"

\* The fields of a tool call that every tool shares; the others are set by
\* the tool's own initial state.
ToolCall(tool, apiKey, token) ==
    [pc |-> "start", tool |-> tool,
     apiKey |-> apiKey,            \* process.env.GEMINI_API_KEY is set
     token |-> token,              \* process.env.GITHUB_TOKEN is set
     code |-> Undefined, rootDirectory |-> <<>>, fileName |-> <<>>,
     readable |-> {}, denied |-> {},
     localPath |-> <<>>, exists |-> FALSE, nFiles |-> 0,
     repo |-> Undefined, branch |-> Undefined,
     remoteBranch |-> FALSE,       \* the branch exists on the remote
     ref |-> <<>>,                 \* the reference asked of git.getRef
     filePath |-> <<>>, tried |-> {}, codeToAnalyze |-> FALSE,
     currentCommitSha |-> Null, baseTreeSha |-> Null, isEmptyRepo |-> FALSE,
     blobs |-> 0,
     treeBase |-> Undefined,       \* treeParams.base_tree sent to git.createTree
     parents |-> <<>>,             \* commitParams.parents sent to git.createCommit
     calls |-> <<>>,               \* the requests sent to external services
     refWrites |-> 0,              \* createRef / updateRef that succeeded
     framework |-> Undefined,      \* params.framework of generateCode
     output |-> <<>>,              \* response.text of the model, as tokens
     result |-> NoValue,           \* the value the tool call resolved with
     mcpText |-> <<>>,             \* result.content[0].text of the MCP call
     forwarded |-> "none",         \* the backend's response: "none" | "success" | "error"
     projectData |-> NoValue,      \* projectData of the backend's response
     error |-> NoError, success |-> FALSE]

\* the calls of generateCode, by environment and parameters
generateCodeCalls ==
    {[ToolCall("generateCode", apiKey, token) EXCEPT !.framework = framework] :
        apiKey \in BOOLEAN, token \in BOOLEAN, framework \in {Undefined, "react"}}

\* the calls of detectBugs, by environment, parameters and disk
detectBugsCalls ==
    UNION {{[ToolCall("detectBugs", apiKey, token) EXCEPT
                !.code = code, !.rootDirectory = root, !.fileName = fileName,
                !.readable = readable, !.denied = denied] :
              denied \in SUBSET (DiskFiles \ readable)} :
           apiKey \in BOOLEAN, token \in BOOLEAN, code \in {Undefined, "code"},
           root \in {<<>>, Root}, fileName \in FileNames \cup {<<>>},
           readable \in SUBSET DiskFiles}

\* the calls of autoCommitAndPush, by environment, parameters, disk and remote
autoCommitAndPushCalls ==
    {t \in {[ToolCall("autoCommitAndPush", apiKey, token) EXCEPT
                !.localPath = localPath, !.exists = exists, !.nFiles = n,
                !.repo = repo, !.branch = branch, !.remoteBranch = remoteBranch] :
              apiKey \in BOOLEAN, token \in BOOLEAN,
              localPath \in {Root, UndefinedPath}, exists \in BOOLEAN,
              n \in 0..MaxFiles, repo \in {Undefined, "repo"},
              branch \in {Undefined, "main"}, remoteBranch \in BOOLEAN} :
        /\ t.exists => t.localPath # UndefinedPath
        /\ ~t.exists => t.nFiles = 0}

ToolsInit == tc \in generateCodeCalls \cup detectBugsCalls \cup autoCommitAndPushCalls

Fail(t, error) == [t EXCEPT !.pc = "done", !.error = error]

\* a request to an external service: the operation and, for a blob, the
\* number of the file it uploads
Request(op, object) == [op |-> op, object |-> object]

Call(t, request, pc) ==
    [t EXCEPT !.pc = pc,
              !.calls = Append(@, Request(request, IF request = "git.createBlob"
                                                   THEN t.blobs + 1 ELSE 0))]

\* generateCode / detectBugs: if (!apiKey) throw
apiKeyCheck(t) ==
    IF ~t.apiKey THEN Err("GEMINI_API_KEY environment variable is not set", {})
    ELSE NoError

\* generateCode up to await ai.models.generateContent
generateCodeStart(t) ==
    IF apiKeyCheck(t) # NoError THEN Fail(t, apiKeyCheck(t))
    ELSE Call(t, "generateContent", "awaitModel")

\* mutant: no fallback message, the first path is not reported
detectBugsReadFirstPathLost(t) ==
    LET first == join(t.rootDirectory, t.fileName)
        r == readFile(first, t.readable, t.denied)
    IN  IF r = "ok" THEN [t EXCEPT !.filePath = first, !.tried = {first},
                                   !.codeToAnalyze = TRUE]
        ELSE Fail([t EXCEPT !.tried = {first}], Err("File not found", {}))

\* detectBugs: the file reading, when rootDirectory and fileName are given
detectBugsRead(t) ==
    LET first == join(t.rootDirectory, t.fileName)
        r == readFile(first, t.readable, t.denied)
        second == join(join(t.rootDirectory, <<"src">>), t.fileName)
        r2 == readFile(second, t.readable, t.denied)
    IN  IF r = "ok"
        THEN [t EXCEPT !.filePath = first, !.tried = {first}, !.codeToAnalyze = TRUE]
        ELSE IF r = "ENOENT" /\ ~includesSrc(t.fileName)
        THEN IF r2 = "ok"
             THEN [t EXCEPT !.filePath = second, !.tried = {first, second},
                            !.codeToAnalyze = TRUE]
             ELSE Fail([t EXCEPT !.filePath = second, !.tried = {first, second}],
                       Err("File not found. Tried", {first, second}))
        ELSE Fail([t EXCEPT !.filePath = first, !.tried = {first}],
                  Err(IF r = "EACCES" THEN "Access denied to file"
                      ELSE "Failed to read file", {first}))

\* detectBugs up to await ai.models.generateContent
detectBugsStart(t) ==
    IF apiKeyCheck(t) # NoError THEN Fail(t, apiKeyCheck(t))
    ELSE LET t1 == [t EXCEPT !.codeToAnalyze = (t.code # Undefined)]
             t2 == IF t.rootDirectory # <<>> /\ t.fileName # <<>>
                   THEN detectBugsRead(t1) ELSE t1
         IN  IF t2.pc = "done" THEN t2
             ELSE IF ~t2.codeToAnalyze THEN Fail(t2, Err("No code provided", {}))
             ELSE Call(t2, "generateContent", "awaitModel")

\* mutant: the existence check is missing
pathCheckMissing(t) == NoError

\* autoCommitAndPush: if (!fs.existsSync(localPath)) throw
pathCheck(t) ==
    IF ~t.exists THEN Err("Path does not exist", {t.localPath}) ELSE NoError

\* autoCommitAndPush up to await octokit.rest.repos.get
autoCommitAndPushStart(t) ==
    IF pathCheck(t) # NoError THEN Fail(t, pathCheck(t))
    ELSE Call(t, "repos.get", "repoGet")

\* the synchronous start of the tool call
ToolStart ==
    /\ tc.pc = "start"
    /\ tc' = CASE tc.tool = "generateCode" -> generateCodeStart(tc)
               [] tc.tool = "detectBugs" -> detectBugsStart(tc)
               [] OTHER -> autoCommitAndPushStart(tc)
    /\ UNCHANGED <<connVars, sv, ps, cli, web, app>>

\* mutant: a response that cannot be decoded makes the call again
generateCodeDecodedRetry(t, text) ==
    IF decodeResponse(text).error # "none"
    THEN Call([t EXCEPT !.output = text], "generateContent", "awaitModel")
    ELSE [t EXCEPT !.output = text, !.pc = "done", !.success = TRUE,
                   !.result = generateCodeReturn(decodeResponse(text).value, t.framework)]

\* generateCode: from response.text to the return or the rethrown error
generateCodeDecoded(t, text) ==
    LET d == decodeResponse(text)
        t1 == [t EXCEPT !.output = text]
    IN  IF d.error # "none" THEN Fail(t1, Err(d.error, {}))
        ELSE IF "files" \notin DOMAIN d.value
        THEN Fail(t1, Err("Cannot read properties of undefined", {}))
        ELSE [t1 EXCEPT !.pc = "done", !.success = TRUE,
                        !.result = generateCodeReturn(d.value, t.framework)]

\* await ai.models.generateContent settles, and the response is decoded
ModelReturn ==
    /\ tc.pc = "awaitModel"
    /\ \/ tc' = Fail(tc, Err("rejected", {}))
       \/ /\ tc.tool = "detectBugs"
          /\ \E o \in {"ok", "No valid JSON found in response", "malformed"} :
                tc' = IF o = "ok" THEN [tc EXCEPT !.pc = "done", !.success = TRUE]
                      ELSE Fail(tc, Err(o, {}))
       \/ /\ tc.tool = "generateCode"
          /\ \E text \in ModelTexts : tc' = generateCodeDecoded(tc, text)
    /\ UNCHANGED <<connVars, sv, ps, cli, web, app>>

\* src/server.js, the generate-code tool handler: the text of its result
generateCodeHandler(t) ==
    IF t.success THEN JSONstringify(t.result) ELSE <<Token("prose", NoValue)>>

\* the generate-code handler of the MCP server returns
McpToolResult ==
    /\ tc.tool = "generateCode" /\ tc.pc = "done" /\ tc.mcpText = <<>>
    /\ tc' = [tc EXCEPT !.mcpText = generateCodeHandler(tc)]
    /\ UNCHANGED <<connVars, sv, ps, cli, web, app>>

\* backend-server.js ws.on('message'): rawData of the generate-code result
rawDataOf(content) ==
    IF content # <<>> /\ JSONparse(content).ok THEN JSONparse(content).value ELSE NoValue

\* backend-server.js ws.on('message'): await client.callTool settles and the
\* response is sent; callTool rejects when its timeout expires first
BackendResponse ==
    /\ tc.tool = "generateCode" /\ tc.forwarded = "none" /\ tc.pc # "start"
    /\ \/ /\ tc.mcpText # <<>>
          /\ tc' = [tc EXCEPT !.forwarded = "success",
                             !.projectData = rawDataOf(tc.mcpText)]
       \/ tc' = [tc EXCEPT !.forwarded = "error"]
    /\ UNCHANGED <<connVars, sv, ps, cli, web, app>>

\* the answers octokit.rest.repos.get can give this call
RepoGetOutcomes(t) ==
    (IF t.token /\ t.repo # Undefined THEN {"ok"} ELSE {})
        \cup (IF t.repo # Undefined THEN {"nopush"} ELSE {})
        \cup {"404", "401", "other"}

\* `heads/${branch}`: an absent branch is spelled "undefined"
headsRef(branch) == <<"heads", IF branch = Undefined THEN "undefined" ELSE branch>>

\* autoCommitAndPush: from the answer of repos.get to await git.getRef
autoCommitAndPushRepo(t, o) ==
    IF o = "nopush" THEN Fail(t, Err("No write access to repository", {}))
    ELSE IF o = "404" THEN Fail(t, Err("Repository not found", {}))
    ELSE IF o = "401" THEN Fail(t, Err("GitHub authentication failed", {}))
    ELSE IF o # "ok" THEN Fail(t, Err("request failed", {}))
    ELSE IF t.nFiles = 0 THEN Fail(t, Err("No files found to commit", {}))
    ELSE Call([t EXCEPT !.ref = headsRef(t.branch)], "git.getRef", "getRef")

CommitRepoGet ==
    /\ tc.pc = "repoGet"
    /\ \E o \in RepoGetOutcomes(tc) : tc' = autoCommitAndPushRepo(tc, o)
    /\ UNCHANGED <<connVars, sv, ps, cli, web, app>>

\* await git.getRef settles: 404 means the branch does not exist yet
CommitGetRef ==
    /\ tc.pc = "getRef"
    /\ \/ /\ tc.remoteBranch
          /\ tc' = Call([tc EXCEPT !.currentCommitSha = "head"], "git.getCommit", "getCommit")
       \/ /\ ~tc.remoteBranch
          /\ tc' = Call([tc EXCEPT !.isEmptyRepo = TRUE], "git.createBlob", "createBlob")
       \/ tc' = Fail(tc, Err("request failed", {}))
    /\ UNCHANGED <<connVars, sv, ps, cli, web, app>>

\* await git.getCommit settles
CommitGetCommit ==
    /\ tc.pc = "getCommit"
    /\ \/ tc' = Call([tc EXCEPT !.baseTreeSha = "tree"], "git.createBlob", "createBlob")
       \/ tc' = Call([tc EXCEPT !.isEmptyRepo = TRUE], "git.createBlob", "createBlob")
       \/ tc' = Fail(tc, Err("request failed", {}))
    /\ UNCHANGED <<connVars, sv, ps, cli, web, app>>

\* autoCommitAndPush: treeParams.base_tree, left out when baseTreeSha is null
treeParams(t) == IF t.baseTreeSha # Null THEN t.baseTreeSha ELSE Undefined

\* autoCommitAndPush: commitParams.parents, left out when currentCommitSha is null
commitParams(t) == IF t.currentCommitSha # Null THEN <<t.currentCommitSha>> ELSE <<>>

\* autoCommitAndPush: the request that moves the reference
refRequest(t) == IF t.isEmptyRepo THEN "git.createRef" ELSE "git.updateRef"

\* await git.createBlob settles, for file number tc.blobs + 1
CommitCreateBlob ==
    /\ tc.pc = "createBlob"
    /\ \/ tc' = IF tc.blobs + 1 < tc.nFiles
                THEN Call([tc EXCEPT !.blobs = @ + 1], "git.createBlob", "createBlob")
                ELSE Call([tc EXCEPT !.blobs = @ + 1, !.treeBase = treeParams(tc)],
                          "git.createTree", "createTree")
       \/ tc' = Fail(tc, Err("request failed", {}))
    /\ UNCHANGED <<connVars, sv, ps, cli, web, app>>

\* mutant: the reference is moved as soon as the tree exists
afterCreateTreeRefFirst(t) == Call(t, "git.updateRef", "ref")

\* autoCommitAndPush: from the answer of git.createTree to await git.createCommit
afterCreateTree(t) ==
    Call([t EXCEPT !.parents = commitParams(t)], "git.createCommit", "createCommit")

\* await git.createTree settles
CommitCreateTree ==
    /\ tc.pc = "createTree"
    /\ \/ tc' = afterCreateTree(tc)
       \/ tc' = Fail(tc, Err("request failed", {}))
    /\ UNCHANGED <<connVars, sv, ps, cli, web, app>>

\* await git.createCommit settles; the reference is created or updated
CommitCreateCommit ==
    /\ tc.pc = "createCommit"
    /\ \/ tc' = Call(tc, refRequest(tc), "ref")
       \/ tc' = Fail(tc, Err("request failed", {}))
    /\ UNCHANGED <<connVars, sv, ps, cli, web, app>>

\* await git.createRef / git.updateRef settles
CommitRef ==
    /\ tc.pc = "ref"
    /\ \/ /\ tc.isEmptyRepo => ~tc.remoteBranch
          /\ tc' = [tc EXCEPT !.pc = "done", !.refWrites = @ + 1, !.success = TRUE]
       \/ tc' = Fail(tc, Err("request failed", {}))
    /\ UNCHANGED <<connVars, sv, ps, cli, web, app>>

ConnIdle ==
    /\ server = "none" /\ wsState = "closed" /\ setup = "none"
    /\ isConnected = FALSE /\ transport = "none" /\ pingInterval = "none"
    /\ listeners = FALSE /\ reqs = <<>> /\ sent = <<>>

ToolsNext ==
    \/ ToolStart
    \/ ModelReturn
    \/ McpToolResult
    \/ BackendResponse
    \/ CommitRepoGet
    \/ CommitGetRef
    \/ CommitGetCommit
    \/ CommitCreateBlob
    \/ CommitCreateTree
    \/ CommitCreateCommit
    \/ CommitRef

InitTools == ConnIdle /\ ToolsInit /\ SaveIdle /\ ParseIdle /\ CliIdle /\ WebIdle /\ AppIdle

SpecTools == InitTools /\ [][ToolsNext]_vars

(***************************************************************************)
(* SpecRequest: the single server handling one 'message' request, from the *)
(* classification call of analyzeIntent through executeTool to the end of  *)
(* the tool call                                                           *)
(***************************************************************************)
\* the name the single server's switch knows the tool wrapper by
toolNameOf(tool) ==
    CASE tool = "generateCode" -> "generate-code"
      [] tool = "detectBugs" -> "detect-bugs"
      [] OTHER -> "github-commit"

\* the tool calls of a request, waiting for await analyzeIntent(userMessage)
RequestCalls ==
    {[t EXCEPT !.pc = "awaitIntent", !.calls = <<Request("analyzeIntent", 0)>>] :
        t \in generateCodeCalls \cup detectBugsCalls \cup autoCommitAndPushCalls}

\* await analyzeIntent(userMessage) settles; executeTool enters the tool
IntentSettles ==
    /\ tc.pc = "awaitIntent"
    /\ \E answer \in IntentAnswers \ (ToolNames \ {toolNameOf(tc.tool)}) :
          tc' = IF analyzeIntent(answer) = NoTool
                THEN Fail(tc, Err("Could not understand your request", {}))
                ELSE IF executeTool(analyzeIntent(answer))
                THEN [tc EXCEPT !.pc = "start"]
                ELSE Fail(tc, Err("Tool not implemented", {}))
    /\ UNCHANGED <<connVars, sv, ps, cli, web, app>>

RequestNext ==
    \/ IntentSettles
    \/ ToolStart
    \/ ModelReturn
    \/ CommitRepoGet
    \/ CommitGetRef
    \/ CommitGetCommit
    \/ CommitCreateBlob
    \/ CommitCreateTree
    \/ CommitCreateCommit
    \/ CommitRef

InitRequest == ConnIdle /\ tc \in RequestCalls /\ SaveIdle /\ ParseIdle /\ CliIdle /\ WebIdle /\ AppIdle

SpecRequest == InitRequest /\ [][RequestNext]_vars

\* C13: within the handling of one request no external call is issued
\* twice: the classification call, the model generation call and each GitHub
\* operation on a given object occur at most once among the requests sent,
\* so a call that failed is not issued again.
C13_NothingRetried ==
    \A i, j \in DOMAIN tc.calls : i # j => tc.calls[i] # tc.calls[j]

\* C13 witness: a request classified as a commit of two files went through
\* the classification call and every GitHub operation, one blob per file
C13_Witness ==
    /\ tc.tool = "autoCommitAndPush" /\ tc.success /\ tc.nFiles = 2
    /\ Len(tc.calls) = 9
    /\ tc.calls[1].op = "analyzeIntent"

(***************************************************************************)
(* Claims about the tool wrappers (SpecTools)                              *)
(***************************************************************************)
\* C6: autoCommitAndPush with a localPath that does not exist fails with
\* 'Path does not exist: <localPath>' and sends no request to GitHub.
C6_MissingPathFailsFirst ==
    (tc.tool = "autoCommitAndPush" /\ ~tc.exists) =>
        /\ tc.calls = <<>>
        /\ ~tc.success
        /\ tc.pc = "done" =>
              /\ tc.error.kind = "Path does not exist"
              /\ tc.localPath \in tc.error.paths

\* C6 witness: the call with a missing path has failed
C6_Witness ==
    /\ tc.tool = "autoCommitAndPush" /\ ~tc.exists /\ tc.localPath = Root
    /\ tc.pc = "done"

\* the file rootDirectory/fileName is named by the call and does not exist
NamesMissingFile ==
    /\ tc.tool = "detectBugs"
    /\ tc.rootDirectory # <<>> /\ tc.fileName # <<>>
    /\ join(tc.rootDirectory, tc.fileName) \notin (tc.readable \cup tc.denied)

FallbackReadable ==
    /\ ~includesSrc(tc.fileName)
    /\ join(join(tc.rootDirectory, <<"src">>), tc.fileName) \in tc.readable

CredentialMissing ==
    \/ tc.tool \in {"generateCode", "detectBugs"} /\ ~tc.apiKey
    \/ tc.tool = "autoCommitAndPush" /\ ~tc.token

\* C9: a tool call that lacks its credential fails with an error about the
\* missing credential and sends no request to the external service.
C9_FailsFastWithoutCredential ==
    (CredentialMissing /\ tc.pc # "start") =>
        /\ tc.calls = <<>>
        /\ tc.pc = "done"
        /\ tc.error.kind \in {"GEMINI_API_KEY environment variable is not set",
                              "GITHUB_TOKEN is not set"}

\* the value the model's output serialises
DecodedOutput == tc.output[CHOOSE i \in DOMAIN tc.output : tc.output[i].kind = "json"].value

\* C11: when generateCode succeeds, the project name and the list of file
\* entries it returns are those decoded from the model's output, in the same
\* order and with the same contents, success is true and summary.totalFiles
\* is the number of entries; the projectData of the backend's response holds
\* the same name and entries.
C11_GeneratedProjectPassedThrough ==
    (tc.tool = "generateCode" /\ tc.success) =>
        /\ \E i \in DOMAIN tc.output : tc.output[i].kind = "json"
        /\ tc.result.success = TRUE
        /\ tc.result.projectName = Get(DecodedOutput, "projectName")
        /\ tc.result.files = DecodedOutput.files
        /\ tc.result.summary.totalFiles = Len(DecodedOutput.files)
        /\ tc.forwarded = "success" =>
              /\ "files" \in DOMAIN tc.projectData
              /\ tc.projectData.files = DecodedOutput.files
              /\ Get(tc.projectData, "projectName") = Get(DecodedOutput, "projectName")
              /\ tc.projectData.success = TRUE
              /\ tc.projectData.summary.totalFiles = Len(DecodedOutput.files)

\* C11 witness: a project of two entries, answered inside a markdown fence
\* and without a framework, reached the client as projectData
C11_Witness ==
    /\ tc.tool = "generateCode" /\ tc.success /\ tc.forwarded = "success"
    /\ Len(tc.result.files) = 2 /\ tc.result.files[1] # tc.result.files[2]
    /\ tc.output[1].kind = "fence-json"
    /\ tc.framework = Undefined

\* the operations that create an object or move a reference on the remote
RemoteWrites == {"git.createBlob", "git.createTree", "git.createCommit",
                 "git.createRef", "git.updateRef"}

\* one of localPath, repo and branch is absent from the parameters
ParamAbsent ==
    /\ tc.tool = "autoCommitAndPush"
    /\ tc.localPath = UndefinedPath \/ tc.repo = Undefined \/ tc.branch = Undefined

\* C16: autoCommitAndPush called without localPath, repo or branch fails and
\* asks the remote for no blob, tree, commit or reference.
C16_AbsentParamFails ==
    ParamAbsent =>
        /\ ~tc.success
        /\ \A k \in DOMAIN tc.calls : tc.calls[k].op \notin RemoteWrites
        /\ tc.refWrites = 0

\* the positions in tc.calls of the requests for the operations ops
CallsOf(ops) == {k \in DOMAIN tc.calls : tc.calls[k].op \in ops}

RefRequests == CallsOf({"git.createRef", "git.updateRef"})

\* C17: in autoCommitAndPush the reference is created or updated at most
\* once, by the last request of the call, which follows the repository check,
\* one blob per file, the tree and the commit; a call that fails leaves the
\* reference unchanged.
C17_RefIsLastStep ==
    tc.tool = "autoCommitAndPush" =>
        /\ tc.refWrites <= 1
        /\ Cardinality(RefRequests) <= 1
        /\ \A k \in RefRequests :
              /\ k = Len(tc.calls)
              /\ tc.calls[1].op = "repos.get"
              /\ Cardinality(CallsOf({"git.createBlob"})) = tc.nFiles
              /\ tc.blobs = tc.nFiles /\ tc.nFiles > 0
              /\ \E b \in CallsOf({"git.createTree"}), c \in CallsOf({"git.createCommit"}) :
                    /\ \A a \in CallsOf({"git.createBlob"}) : a < b
                    /\ b < c /\ c < k
        /\ tc.refWrites = 1 => (tc.success /\ RefRequests # {})
        /\ (tc.pc = "done" /\ ~tc.success) =>
              /\ tc.refWrites = 0
              /\ tc.error # NoError

\* C17 witness: a commit of two files moved the reference, once
C17_Witness ==
    /\ tc.tool = "autoCommitAndPush" /\ tc.success /\ tc.nFiles = 2
    /\ tc.refWrites = 1 /\ tc.calls[Len(tc.calls)].op = "git.updateRef"

\* C18: at the reference step of autoCommitAndPush, when the branch exists
\* the commit's only parent is the branch head, the tree is based on the
\* head's tree and the reference is updated; when it does not exist the commit
\* has no parent, the tree no base, and the reference is created; isEmptyRepo
\* is true exactly when currentCommitSha and baseTreeSha are both null.
C18_BranchStateConsistent ==
    (tc.tool = "autoCommitAndPush" /\ RefRequests # {}) =>
        /\ tc.remoteBranch =>
              /\ tc.parents = <<"head">> /\ tc.treeBase = "tree"
              /\ \A k \in RefRequests : tc.calls[k].op = "git.updateRef"
        /\ ~tc.remoteBranch =>
              /\ tc.parents = <<>> /\ tc.treeBase = Undefined
              /\ \A k \in RefRequests : tc.calls[k].op = "git.createRef"
        /\ tc.isEmptyRepo <=> (tc.currentCommitSha = Null /\ tc.baseTreeSha = Null)

(***************************************************************************)
(* SpecSave: ProjectRunner.saveProject                                     *)
(***************************************************************************)
\* Number of file entries of a project payload.
MaxEntries == 2

OutputDir == <<"/", "out">>
ProjectName == <<"p">>
PayloadPaths == {<<"a">>, <<"d", "a">>, <<".", "a">>, <<"..", "a">>, <<"a", "b">>,
                 <<"/", "a">>}
Contents == {"x", "y"}
Entries == [path : PayloadPaths, content : Contents]

\* path.dirname
dirname(loc) == SubSeq(loc, 1, Len(loc) - 1)

Prefixes(loc) == {SubSeq(loc, 1, n) : n \in 1..Len(loc)}

\* mutant: only the file's base name is used
targetOfFlattened(projectPath, path) == join(projectPath, <<path[Len(path)]>>)

\* saveProject: const filePath = join(projectPath, file.path)
targetOf(projectPath, path) == join(projectPath, path)

\* mkdir(dir, { recursive: true }): fails when a file is in the way
mkdirFails(disk, dir) == Prefixes(dir) \cap DOMAIN disk.files # {}
mkdir(disk, dir) == [disk EXCEPT !.dirs = @ \cup Prefixes(dir)]

\* writeFile(filePath, content): fails on a directory
writeFileFails(disk, loc) == loc \in disk.dirs
writeFile(disk, loc, content) ==
    [disk EXCEPT !.files = [l \in DOMAIN @ \cup {loc} |->
                               IF l = loc THEN content ELSE @[l]]]

SaveInit ==
    \E files \in SeqsUpTo(Entries, MaxEntries) :
        sv = [pc |-> "start", files |-> files, i |-> 1,
              projectPath |-> <<>>,
              disk |-> [files |-> <<>>, dirs |-> {<<"/">>}],
              written |-> {}]

\* saveProject: projectPath and the project directory
SaveStart ==
    /\ sv.pc = "start"
    /\ LET projectPath == join(OutputDir, ProjectName)
       IN  sv' = [sv EXCEPT !.pc = "loop", !.projectPath = projectPath,
                            !.disk = mkdir(@, projectPath)]
    /\ UNCHANGED <<connVars, tc, ps, cli, web, app>>

\* saveProject: one iteration of the loop over projectData.files
SaveFile ==
    /\ sv.pc = "loop" /\ sv.i <= Len(sv.files)
    /\ LET file == sv.files[sv.i]
           filePath == targetOf(sv.projectPath, file.path)
           fileDir == dirname(filePath)
       IN  IF mkdirFails(sv.disk, fileDir)
           THEN sv' = [sv EXCEPT !.pc = "failed"]
           ELSE IF writeFileFails(mkdir(sv.disk, fileDir), filePath)
           THEN sv' = [sv EXCEPT !.pc = "failed", !.disk = mkdir(@, fileDir)]
           ELSE sv' = [sv EXCEPT !.i = @ + 1,
                                 !.disk = writeFile(mkdir(@, fileDir), filePath,
                                                    file.content),
                                 !.written = @ \cup {filePath}]
    /\ UNCHANGED <<connVars, tc, ps, cli, web, app>>

\* saveProject: return projectPath
SaveReturn ==
    /\ sv.pc = "loop" /\ sv.i > Len(sv.files)
    /\ sv' = [sv EXCEPT !.pc = "done"]
    /\ UNCHANGED <<connVars, tc, ps, cli, web, app>>

SaveNext ==
    \/ SaveStart
    \/ SaveFile
    \/ SaveReturn

InitSave == ConnIdle /\ ToolsIdle /\ SaveInit /\ ParseIdle /\ CliIdle /\ WebIdle /\ AppIdle

SpecSave == InitSave /\ [][SaveNext]_vars

(***************************************************************************)
(* Claims about saveProject (SpecSave)                                     *)
(***************************************************************************)
\* readFile(outputDir/projectName/path), "<absent>" when there is no file
ReadBack(path) ==
    LET loc == join(join(OutputDir, ProjectName), path)
    IN  IF loc \in DOMAIN sv.disk.files THEN sv.disk.files[loc] ELSE "<absent>"

Under(dir, loc) == Len(loc) > Len(dir) /\ SubSeq(loc, 1, Len(dir)) = dir

\* the relative paths of the files written under the project directory
WrittenRelativePaths ==
    {SubSeq(loc, Len(sv.projectPath) + 1, Len(loc)) :
        loc \in {l \in sv.written : Under(sv.projectPath, l)}}

PayloadPathSet == {sv.files[k].path : k \in DOMAIN sv.files}

\* C8 as stated: after a successful save every entry reads back its own
\* content, and the relative paths written under the project directory are
\* exactly the payload's paths.
C8_RoundTrip ==
    sv.pc = "done" =>
        /\ \A k \in DOMAIN sv.files : ReadBack(sv.files[k].path) = sv.files[k].content
        /\ WrittenRelativePaths = PayloadPathSet

\* the payload's paths are pairwise distinct, normalised and relative, and
\* stay inside the project directory
CleanPayload ==
    /\ \A j, k \in DOMAIN sv.files : j # k => sv.files[j].path # sv.files[k].path
    /\ \A k \in DOMAIN sv.files :
          /\ join(<<>>, sv.files[k].path) = sv.files[k].path
          /\ sv.files[k].path[1] \notin {"..", "/"}

\* the last entry of the payload that resolves to the location of entry k
LastAt(k) ==
    CHOOSE j \in DOMAIN sv.files :
        /\ join(OutputDir \o ProjectName, sv.files[j].path)
              = join(OutputDir \o ProjectName, sv.files[k].path)
        /\ \A m \in DOMAIN sv.files :
              join(OutputDir \o ProjectName, sv.files[m].path)
                 = join(OutputDir \o ProjectName, sv.files[k].path) => m <= j

\* C8 amended: after a successful save every entry's location
\* join(outputDir, projectName, path) holds the content of the last entry
\* that resolves to that location, and the files written are exactly the
\* locations the payload's paths resolve to; for a payload of pairwise
\* distinct, normalised relative paths inside the project directory this is
\* the round trip as stated.
C8_RoundTripLastWins ==
    sv.pc = "done" =>
        /\ \A k \in DOMAIN sv.files :
              ReadBack(sv.files[k].path) = sv.files[LastAt(k)].content
        /\ sv.written = {join(OutputDir \o ProjectName, sv.files[k].path) :
                            k \in DOMAIN sv.files}
        /\ DOMAIN sv.disk.files = sv.written
        /\ CleanPayload =>
              /\ \A k \in DOMAIN sv.files :
                    ReadBack(sv.files[k].path) = sv.files[k].content
              /\ WrittenRelativePaths = PayloadPathSet

\* C8 witness: a payload of two files, one in a subdirectory, was saved
C8_Witness ==
    /\ sv.pc = "done" /\ CleanPayload
    /\ Len(sv.files) = 2
    /\ \E k \in DOMAIN sv.files : Len(sv.files[k].path) = 2

(***************************************************************************)
(* SpecParse: one call of CommandParser.parseCommand                       *)
(*   The input is given by the phrases the lower-cased text contains.      *)
(***************************************************************************)
\* Number of phrases of the parser's vocabulary chosen for one input.
MaxPhrases == 3

\* parseCommand: bugKeywords
bugKeywords == {"detect", "bugs", "bug", "find issues", "find errors", "analyze",
                "check bugs", "scan"}

\* parseCommand: the texts hasFileIntent looks for
fileMarkers == {"file:", "filename:", "in this code", "in my code", "in the code"}

\* parseCommand: generateKeywords
generateKeywords == {"generate", "create", "build", "make"}

\* parseCommand: priorityMatches, by tool
bestPracticesPhrases == {"best practices", "code quality", "review code", "check code"}
githubPhrases == {"github commit", "git commit", "push to github", "commit to"}

Phrases == bugKeywords \cup fileMarkers \cup generateKeywords
              \cup bestPracticesPhrases \cup githubPhrases

\* lowerInput.includes: a text that contains a phrase contains its substrings
Includes(chosen) ==
    chosen \cup (IF "check bugs" \in chosen THEN {"bugs", "bug"} ELSE {})
           \cup (IF "bugs" \in chosen THEN {"bug"} ELSE {})

\* the inputs: what the text contains, for up to MaxPhrases chosen phrases
Inputs == {Includes(c) : c \in {c \in SUBSET Phrases : Cardinality(c) <= MaxPhrases}}

\* what parseCommand reads of the input: which of its lists have a match
kwOf(input) ==
    (IF input \cap bugKeywords # {} THEN {"bug"} ELSE {})
      \cup (IF input \cap fileMarkers # {} THEN {"file"} ELSE {})
      \cup (input \cap generateKeywords)
      \cup (IF input \cap bestPracticesPhrases # {} THEN {"best practices"} ELSE {})
      \cup (IF input \cap githubPhrases # {} THEN {"git commit"} ELSE {})

ParseInit == \E input \in Inputs : ps = [pc |-> "start", input |-> input, tool |-> NoTool]

\* parser.parseCommand(userInput) returns
ParseReturn ==
    /\ ps.pc = "start"
    /\ ps' = [ps EXCEPT !.pc = "done", !.tool = parseCommand(kwOf(ps.input))]
    /\ UNCHANGED <<connVars, tc, sv, cli, web, app>>

ParseNext == ParseReturn

InitParse == ConnIdle /\ ToolsIdle /\ SaveIdle /\ ParseInit /\ CliIdle /\ WebIdle /\ AppIdle

SpecParse == InitParse /\ [][ParseNext]_vars

\* C19: parseCommand never returns generate-code for an input that contains
\* a bug-related keyword, whatever else the input contains.
C19_BugKeywordNeverGenerates ==
    (ps.pc = "done" /\ ps.input \cap bugKeywords # {}) => ps.tool # "generate-code"

\* C19 witness: an input with a bug keyword and a generation keyword was
\* parsed as bug detection
C19_Witness ==
    /\ ps.pc = "done" /\ ps.tool = "detect-bugs"
    /\ "scan" \in ps.input /\ "generate" \in ps.input

\* C20: parseCommand never returns generate-code for an input that contains
\* a file reference or a pasted-code marker.
C20_FileMarkerNeverGenerates ==
    (ps.pc = "done" /\ ps.input \cap fileMarkers # {}) => ps.tool # "generate-code"

(***************************************************************************)
(* SpecCli: the command line client executing one typed line               *)
(***************************************************************************)
\* The lines typed at the prompt, by what the parser reads of them.
CliTexts ==
    { Text("help", {}, FALSE, <<>>, FALSE), Text("tools", {}, FALSE, <<>>, FALSE) }
    \cup { Text("none", kw, code, file, repo) :
              kw \in SUBSET {"generate", "bug", "best practices", "git commit"},
              code \in BOOLEAN,
              file \in {<<>>, <<"app.js">>, <<"", "app.js">>},
              repo \in BOOLEAN }

\* what the user enters at a 'Please provide <param>' prompt
Answers == {"", "value"}

RECURSIVE collectFrom(_, _, _, _, _)
\* MCPChatbot.collectMissingParams: the for loop from the k-th required
\* parameter on; asked: the parameters prompted for so far
collectFrom(finalParams, required, k, asked, answer) ==
    IF k > Len(required) THEN [finalParams |-> finalParams, asked |-> asked]
    ELSE IF Falsy(finalParams[required[k]])
    THEN collectFrom(IF answer # ""
                     THEN [finalParams EXCEPT ![required[k]] = answer]
                     ELSE finalParams,
                     required, k + 1, Append(asked, required[k]), answer)
    ELSE collectFrom(finalParams, required, k + 1, asked, answer)

\* MCPChatbot.collectMissingParams(params, toolName), the user entering
\* answer at every prompt
collectMissingParams(params, toolName, answer) ==
    collectFrom(params, requiredParams(toolName), 1, <<>>, answer)

Cli(pc, input, tool, params, missing, finalParams, asked, called, printed) ==
    [pc |-> pc, input |-> input, tool |-> tool, params |-> params, missing |-> missing,
     finalParams |-> finalParams, asked |-> asked, called |-> called, printed |-> printed]

CliInit ==
    \E input \in CliTexts :
        cli = Cli("line", input, NoTool, EmptyBag, <<>>, EmptyBag, <<>>, FALSE, <<>>)

\* MCPChatbot.executeCommand up to await this.collectMissingParams
executeCommand(c) ==
    LET tool == parseCommand(c.input.kw)
        params == extractParams(c.input, tool)
        validation == validateParams(params, tool)
    IN  IF tool = NoTool
        THEN [c EXCEPT !.pc = "done", !.printed = <<"processing", "not understood">>]
        ELSE IF ~validation.valid
        THEN [c EXCEPT !.pc = "done", !.tool = tool, !.params = params,
                       !.missing = validation.missing,
                       !.printed = <<"processing", "detected", "extracted",
                                     "missing", "tool help">>]
        ELSE [c EXCEPT !.pc = "collect", !.tool = tool, !.params = params,
                       !.printed = <<"processing", "detected", "extracted">>]

\* MCPChatbot.handleCommand(trimmed) for a line of the chat loop
CliHandleCommand ==
    /\ cli.pc = "line"
    /\ cli' = IF cli.input.special \in {"help", "tools"}
              THEN [cli EXCEPT !.pc = "done", !.printed = <<cli.input.special>>]
              ELSE executeCommand(cli)
    /\ UNCHANGED <<connVars, tc, sv, ps, web, app>>

\* await this.collectMissingParams(params, parsed.tool) returns and the tool
\* is called with finalParams
CliCollect ==
    /\ cli.pc = "collect"
    /\ \E answer \in Answers :
          LET r == collectMissingParams(cli.params, cli.tool, answer)
          IN  cli' = [cli EXCEPT !.pc = "awaitTool", !.finalParams = r.finalParams,
                                 !.asked = r.asked, !.called = TRUE,
                                 !.printed = Append(@, "executing")]
    /\ UNCHANGED <<connVars, tc, sv, ps, web, app>>

\* await this.client.callTool(parsed.tool, finalParams) settles
CliToolReturn ==
    /\ cli.pc = "awaitTool"
    /\ \E o \in {"result", "error"} :
          cli' = [cli EXCEPT !.pc = "done", !.printed = Append(@, o)]
    /\ UNCHANGED <<connVars, tc, sv, ps, web, app>>

CliNext ==
    \/ CliHandleCommand
    \/ CliCollect
    \/ CliToolReturn

InitCli == ConnIdle /\ ToolsIdle /\ SaveIdle /\ ParseIdle /\ CliInit /\ WebIdle /\ AppIdle

SpecCli == InitCli /\ [][CliNext]_vars

\* the required parameters of the detected tool that the typed line lacks
CliMissing ==
    {p \in Range(requiredParams(cli.tool)) : Falsy(cli.params[p])}

\* C22: when a required parameter of the detected tool is missing from the
\* typed command, the user is prompted for it and the tool is called with
\* the value entered.
C22_MissingParamPrompted ==
    (cli.pc = "done" /\ cli.tool # NoTool) =>
        \A p \in CliMissing :
            /\ p \in Range(cli.asked)
            /\ cli.called
            /\ cli.finalParams[p] \in Answers

(***************************************************************************)
(* SpecWeb: one request to the static server of ProjectRunner.runWebProject *)
(***************************************************************************)
\* Number of path segments of a request URL.
MaxUrl == 3

\* the project directory the server was started for, as saveProject returns it
StaticRoot == join(OutputDir, ProjectName)

\* the characters of a segment name; "p2" is the name "p" followed by "2"
Chars(name) == IF name = "p2" THEN <<"p", "2">> ELSE <<name>>

RECURSIVE relString(_)
relString(segs) ==
    IF segs = <<>> THEN <<>>
    ELSE Chars(segs[1]) \o (IF Len(segs) > 1 THEN <<"/">> \o relString(Tail(segs))
                            ELSE <<>>)

\* the string of a path: its segments separated by '/'
pathString(loc) ==
    IF loc # <<>> /\ loc[1] = "/" THEN <<"/">> \o relString(Tail(loc))
    ELSE relString(loc)

\* String.prototype.startsWith
startsWith(s, prefix) ==
    Len(prefix) <= Len(s) /\ SubSeq(s, 1, Len(prefix)) = prefix

\* the files on the disk of the machine: the project, a project saved next
\* to it, and a file of the output directory
StaticFiles ==
    (<<"/", "out", "p", "index.html">> :> "project page")
    @@ (<<"/", "out", "p", "app.js">> :> "project script")
    @@ (<<"/", "out", "p2", "index.html">> :> "other project page")
    @@ (<<"/", "out", "secret">> :> "secret")

StaticDirs == UNION {Prefixes(dirname(f)) : f \in DOMAIN StaticFiles}

\* fs.existsSync
existsSync(loc) == loc \in DOMAIN StaticFiles \/ loc \in StaticDirs

UrlNames == {"..", "p2", "index.html", "app.js", "secret"}

\* req.url: '/' followed by path segments, as the client wrote them
Urls == {<<"/">> \o q : q \in SeqsUpTo(UrlNames, MaxUrl)}

Web(pc, url, filePath, status, body) ==
    [pc |-> pc, url |-> url, filePath |-> filePath, status |-> status, body |-> body]

WebInit == \E url \in Urls : web = Web("request", url, <<>>, 0, "")

\* runWebProject: createServer((req, res) => ...)
requestHandler(projectPath, url) ==
    LET filePath == join(projectPath, IF url = <<"/">> THEN <<"index.html">> ELSE url)
    IN  IF ~startsWith(pathString(filePath), pathString(projectPath))
        THEN Web("done", url, filePath, 403, "Forbidden")
        ELSE IF ~existsSync(filePath)
        THEN Web("done", url, filePath, 404, "File not found")
        ELSE IF filePath \in DOMAIN StaticFiles
        THEN Web("done", url, filePath, 200, StaticFiles[filePath])
        ELSE Web("done", url, filePath, 500, "Internal server error")

\* the server answers the request
WebRespond ==
    /\ web.pc = "request"
    /\ web' = requestHandler(StaticRoot, web.url)
    /\ UNCHANGED <<connVars, tc, sv, ps, cli, app>>

WebNext == WebRespond

InitWeb == ConnIdle /\ ToolsIdle /\ SaveIdle /\ ParseIdle /\ CliIdle /\ WebInit /\ AppIdle

SpecWeb == InitWeb /\ [][WebNext]_vars

\* loc is the project directory or lies below it
InsideProject(loc) ==
    Len(StaticRoot) <= Len(loc) /\ SubSeq(loc, 1, Len(StaticRoot)) = StaticRoot

\* C23: a request whose path resolves outside the project directory is
\* answered with 403 and no file content.
C23_OutsideForbidden ==
    (web.pc = "done" /\ ~InsideProject(web.filePath)) =>
        /\ web.status = 403
        /\ web.body = "Forbidden"

(***************************************************************************)
(* SpecApp: the browser client of the backend server (web/app.js) with the *)
(* WebSocket objects it creates and the backend answering on each of them  *)
(***************************************************************************)
\* Number of WebSocket objects the page creates.
MaxSockets == 3
\* Number of texts the user submits.
MaxSends == 2

\* a WebSocket object: readyState, the envelopes the server has sent on it
\* that the page has not handled yet, the tool calls the server awaits for
\* it, the commands sent on it whose terminal envelope was not handled, and
\* whether the page handled a 'connected' envelope received on it
Sock(readyState, queue, awaiting, outstanding, connected) ==
    [readyState |-> readyState, queue |-> queue, awaiting |-> awaiting,
     outstanding |-> outstanding, connected |-> connected]

\* an envelope on its way to the page; command: it answers a command
Envelope(type, command) == [type |-> type, command |-> command]

\* the envelopes of the server for a command, as the page receives them
ForCommand(envs) == [i \in DOMAIN envs |-> Envelope(envs[i].type, TRUE)]

\* MCPChatbotWeb.addMessage, for what it does to the state of the page
addMessage(a) == [a EXCEPT !.isProcessing = FALSE]

\* MCPChatbotWeb.connectWebSocket
connectWebSocket(a) ==
    [addMessage(a) EXCEPT !.socks = Append(@, Sock("connecting", <<>>, 0, 0, FALSE)),
                          !.ws = Len(a.socks) + 1]

\* the constructor and init()
AppInit ==
    app = connectWebSocket([pc |-> "run", isProcessing |-> FALSE, isConnected |-> FALSE,
                            ws |-> 0, socks |-> <<>>, timers |-> 0, sends |-> 0])

\* MCPChatbotWeb.handleBackendMessage, for an envelope received on socket s
handleBackendMessage(a, s, e) ==
    LET b == IF e.command /\ Terminal(e)
             THEN [a EXCEPT !.socks[s].outstanding = @ - 1]
             ELSE a
    IN  CASE e.type = "connected" ->
              addMessage([b EXCEPT !.isConnected = TRUE, !.socks[s].connected = TRUE])
          [] e.type \in {"progress", "response", "error"} -> addMessage(b)
          [] OTHER -> b

\* MCPChatbotWeb.sendMessage, the input holding the text message
appSendMessage(a, message) ==
    IF a.isProcessing \/ ~a.isConnected
    THEN IF ~a.isConnected THEN addMessage(a) ELSE a
    ELSE LET b == [addMessage(a) EXCEPT !.isProcessing = TRUE]
         IN  IF b.ws # 0 /\ b.socks[b.ws].readyState = "open"
             THEN LET h == BackendHandle(sendCommand(message))
                  IN  [b EXCEPT !.socks[b.ws].queue = @ \o ForCommand(h.envs),
                                !.socks[b.ws].awaiting =
                                    IF h.pc = "awaitTool" THEN @ + 1 ELSE @,
                                !.socks[b.ws].outstanding = @ + 1]
             ELSE connectWebSocket(addMessage(b))

\* the connection of socket s is established and the backend's setup settles:
\* it sends 'connected', or 'error' before it closes the socket
AppSocketOpen ==
    /\ app.pc = "run"
    /\ \E s \in DOMAIN app.socks :
          /\ app.socks[s].readyState = "connecting"
          /\ \E first \in {"connected", "error"} :
                app' = [app EXCEPT !.socks[s].readyState = "open",
                                   !.socks[s].queue = <<Envelope(first, FALSE)>>]
    /\ UNCHANGED <<connVars, tc, sv, ps, cli, web>>

\* ws.onmessage on socket s
AppOnMessage ==
    /\ app.pc = "run"
    /\ \E s \in DOMAIN app.socks :
          /\ app.socks[s].readyState \in {"open", "closing"}
          /\ app.socks[s].queue # <<>>
          /\ app' = handleBackendMessage(
                        [app EXCEPT !.socks[s].queue = Tail(@)], s,
                        Head(app.socks[s].queue))
    /\ UNCHANGED <<connVars, tc, sv, ps, cli, web>>

\* the user presses Enter in the input, which holds a text
AppSendMessage ==
    /\ app.pc = "run"
    /\ app.sends < MaxSends
    /\ (app.isConnected /\ ~app.isProcessing
          /\ ~(app.ws # 0 /\ app.socks[app.ws].readyState = "open"))
       => Len(app.socks) < MaxSockets
    /\ \E message \in TypedTexts :
          app' = appSendMessage([app EXCEPT !.sends = @ + 1], message)
    /\ UNCHANGED <<connVars, tc, sv, ps, cli, web>>

\* the backend: await client.callTool settles for a command of socket s
AppToolReturn ==
    /\ app.pc = "run"
    /\ \E s \in DOMAIN app.socks :
          /\ app.socks[s].readyState = "open"
          /\ app.socks[s].awaiting > 0
          /\ \E callRejected \in BOOLEAN :
                app' = [app EXCEPT
                          !.socks[s].awaiting = @ - 1,
                          !.socks[s].queue =
                              @ \o ForCommand(BackendAfterCall(callRejected,
                                                               mcpToolHandler(FALSE)))]
    /\ UNCHANGED <<connVars, tc, sv, ps, cli, web>>

\* the closing handshake of socket s starts: readyState becomes CLOSING
AppSocketClosing ==
    /\ app.pc = "run"
    /\ \E s \in DOMAIN app.socks :
          /\ app.socks[s].readyState = "open"
          /\ app' = [app EXCEPT !.socks[s].readyState = "closing"]
    /\ UNCHANGED <<connVars, tc, sv, ps, cli, web>>

\* socket s closes: ws.onerror when the connection failed, then ws.onclose,
\* which starts the reconnect timer
AppOnClose ==
    /\ app.pc = "run"
    /\ \E s \in DOMAIN app.socks :
          /\ app.socks[s].readyState # "closed"
          /\ LET a == IF app.socks[s].readyState = "connecting"
                      THEN addMessage(app) ELSE app
             IN  app' = [a EXCEPT !.socks[s].readyState = "closed",
                                  !.socks[s].queue = <<>>,
                                  !.socks[s].awaiting = 0,
                                  !.isConnected = FALSE,
                                  !.timers = @ + 1]
    /\ UNCHANGED <<connVars, tc, sv, ps, cli, web>>

\* a reconnect timer set by ws.onclose fires
AppReconnectTimer ==
    /\ app.pc = "run"
    /\ app.timers > 0
    /\ ~app.isConnected => Len(app.socks) < MaxSockets
    /\ app' = IF ~app.isConnected
              THEN connectWebSocket(addMessage([app EXCEPT !.timers = @ - 1]))
              ELSE [app EXCEPT !.timers = @ - 1]
    /\ UNCHANGED <<connVars, tc, sv, ps, cli, web>>

AppNext ==
    \/ AppSocketOpen
    \/ AppOnMessage
    \/ AppSendMessage
    \/ AppToolReturn
    \/ AppSocketClosing
    \/ AppOnClose
    \/ AppReconnectTimer

InitApp == ConnIdle /\ ToolsIdle /\ SaveIdle /\ ParseIdle /\ CliIdle /\ WebIdle /\ AppInit

SpecApp == InitApp /\ [][AppNext]_vars

\* the sockets that are connecting or open
LiveSockets == {s \in DOMAIN app.socks : app.socks[s].readyState \in {"connecting", "open"}}

\* C25: the page never has more than one command outstanding on a socket.
C25_OneOutstandingCommand ==
    \A s \in DOMAIN app.socks :
        app.socks[s].readyState # "closed" => app.socks[s].outstanding <= 1

\* C26: the page has at most one live WebSocket and at most one pending
\* reconnect timer, and while its current socket is open and has received
\* 'connected' the page is marked connected.
C26_OneSocketOneReconnect ==
    /\ Cardinality(LiveSockets) <= 1
    /\ app.timers <= 1
    /\ (app.ws # 0 /\ app.socks[app.ws].readyState = "open"
           /\ app.socks[app.ws].connected) => app.isConnected

====
